---------------------------- MODULE Spec2Model ----------------------------
(***************************************************************************)
(* Model of the multi-client synchronisation core of pw-hub-tactics:       *)
(*   - the in-memory room store (server/src/rooms/RoomManager.ts),         *)
(*   - the socket relay (server/dist/index.js),                            *)
(*   - the client hook useRoomSync (client/src/hooks/useRoomSync.ts),      *)
(*   - the history hook useCanvasHistory (client/src/types/                *)
(*     canvas-objects.ts) and the drawing map that uses it                 *)
(*     (client/src/components/SquadLayer.tsx).                             *)
(*                                                                         *)
(* The specifications share these definitions:                             *)
(*   SpecStore          : direct calls of the RoomManager methods          *)
(*   SpecRelay          : the relay's handlers, one action per event       *)
(*   Spec               : relay + two useRoomSync clients + FIFO links     *)
(*   SpecThrottle       : the hook's emitters as time passes               *)
(*   SpecOffline        : one client whose connection comes and goes       *)
(*   SpecLeave          : a client that leaves, a client that joins after  *)
(*   SpecInbound        : the hook's listeners, events in any order        *)
(*   SpecHistory        : useCanvasHistory, calls in any order             *)
(*   SpecHistoryLong    : useCanvasHistory, long runs of commits           *)
(*   SpecDrawing        : the drawing map, the relay and a peer            *)
(*   SpecDrawingInbound : the drawing map's listeners, events in any order *)
(***************************************************************************)
EXTENDS Integers, Sequences, FiniteSets, TLC

(***************************************************************************)
(* Input domains.  Room ids are the non-empty strings the page generates   *)
(* (a UUID or the URL hash); object ids are chosen by the creating client. *)
(***************************************************************************)
RoomIds == {"r1", "r2"}
ObjIds == {"o1", "o2"}
Types == {"x", "catapult"}
Positions == {[x |-> 10, y |-> 20], [x |-> 50, y |-> 60]}
Objects == {[id |-> i, x |-> p.x, y |-> p.y, type |-> t] :
              i \in ObjIds, p \in Positions, t \in Types}

\* the value of a JavaScript variable that was never assigned
Undefined == "undefined"
\* the result of a method declared void
Void == "void"

(***************************************************************************)
(* JavaScript Map: an insertion-ordered sequence of entries with unique    *)
(* keys.  set() on a present key replaces the value and keeps its place.   *)
(***************************************************************************)
SeqRange(q) == {q[i] : i \in 1..Len(q)}

MapHas(m, k) == \E i \in 1..Len(m) : m[i].key = k

MapGet(m, k) == m[CHOOSE i \in 1..Len(m) : m[i].key = k].value

MapSetAppend(m, k, v) == Append(m, [key |-> k, value |-> v])

MapSet(m, k, v) ==
  IF MapHas(m, k)
    THEN [i \in 1..Len(m) |-> IF m[i].key = k THEN [key |-> k, value |-> v] ELSE m[i]]
    ELSE Append(m, [key |-> k, value |-> v])

MapDelete(m, k) == SelectSeq(m, LAMBDA e : e.key # k)

MapValues(m) == [i \in 1..Len(m) |-> m[i].value]

(***************************************************************************)
(* RoomManager.  `rs` is the private field `rooms` (roomId -> RoomState),  *)
(* a function whose domain is the set of existing rooms.  A method that    *)
(* changes the store and returns a value is a record [rooms, ret].         *)
(***************************************************************************)
getOrCreateRoom(rs, roomId) ==
  IF roomId \in DOMAIN rs
    THEN rs
    ELSE [r \in DOMAIN rs \cup {roomId} |->
            IF r \in DOMAIN rs THEN rs[r] ELSE [roomId |-> r, objects |-> <<>>]]

addObject(rs, roomId, object) ==
  LET rs1 == getOrCreateRoom(rs, roomId)
  IN  [rs1 EXCEPT ![roomId].objects = MapSet(@, object.id, object)]

updateObjectPositionCreating(rs, roomId, objectId, position) ==
  LET rs1 == getOrCreateRoom(rs, roomId)
  IN  IF ~MapHas(rs1[roomId].objects, objectId)
        THEN [rooms |-> rs1, ret |-> FALSE]
        ELSE [rooms |-> [rs1 EXCEPT ![roomId].objects =
                           MapSet(@, objectId,
                                  [MapGet(@, objectId) EXCEPT !.x = position.x,
                                                              !.y = position.y])],
              ret |-> TRUE]

updateObjectPositionMovingAll(rs, roomId, objectId, position) ==
  IF roomId \notin DOMAIN rs
    THEN [rooms |-> rs, ret |-> FALSE]
    ELSE IF ~MapHas(rs[roomId].objects, objectId)
      THEN [rooms |-> rs, ret |-> FALSE]
      ELSE [rooms |-> [rs EXCEPT ![roomId].objects =
                         [k \in 1..Len(@) |->
                            [key |-> @[k].key,
                             value |-> [@[k].value EXCEPT !.x = position.x,
                                                          !.y = position.y]]]],
            ret |-> TRUE]

updateObjectPosition(rs, roomId, objectId, position) ==
  IF roomId \notin DOMAIN rs
    THEN [rooms |-> rs, ret |-> FALSE]
    ELSE IF ~MapHas(rs[roomId].objects, objectId)
      THEN [rooms |-> rs, ret |-> FALSE]
      ELSE [rooms |-> [rs EXCEPT ![roomId].objects =
                         MapSet(@, objectId,
                                [MapGet(@, objectId) EXCEPT !.x = position.x,
                                                            !.y = position.y])],
            ret |-> TRUE]

deleteObject(rs, roomId, objectId) ==
  IF roomId \notin DOMAIN rs
    THEN [rooms |-> rs, ret |-> FALSE]
    ELSE [rooms |-> [rs EXCEPT ![roomId].objects = MapDelete(@, objectId)],
          ret |-> MapHas(rs[roomId].objects, objectId)]

getRoomObjects(rs, roomId) ==
  IF roomId \notin DOMAIN rs THEN <<>> ELSE MapValues(rs[roomId].objects)

deleteRoom(rs, roomId) == [r \in DOMAIN rs \ {roomId} |-> rs[r]]

hasRoom(rs, roomId) == roomId \in DOMAIN rs

\* `new RoomManager()`: no room exists
NewRoomManager == [r \in {} |-> [roomId |-> r, objects |-> <<>>]]


(***************************************************************************)
(* State.                                                                  *)
(*   rooms    : RoomManager.rooms of the singleton roomManager             *)
(*   call,ret : the last RoomManager method called directly, its result    *)
(*   ref, refRet : the reference map id -> object of every room and the    *)
(*              answer it gives for the last call (auxiliary, SpecStore)   *)
(*   live     : the connections whose socket is open on the server         *)
(*   sockRoom : socket.data.roomId of every connection                     *)
(*   member   : the socket.io rooms every socket has joined                *)
(*   req      : the event the relay handled last                           *)
(*   out      : the events that handler sent, per receiving connection     *)
(***************************************************************************)
VARIABLES rooms, call, ret, ref, refRet, live, sockRoom, member, req, out

(***************************************************************************)
(* The clients (useRoomSync mounted by TacticsMap) and the links.          *)
(*   isConnected : the hook's state isConnected                            *)
(*   objects  : the hook's state objects, the client's local list          *)
(*   up       : the events a client's socket emitted, not yet handled by   *)
(*              the relay (socket.io delivers them in order)               *)
(*   down     : the events sent to a client, not yet handled by it         *)
(*   gestures : how many clicks, drag moves and drag ends the users made   *)
(*   hist     : per object id, what the users did with it (auxiliary)      *)
(***************************************************************************)
VARIABLES isConnected, objects, up, down, gestures, hist

(***************************************************************************)
(* The throttle of useRoomSync.                                            *)
(*   now          : what Date.now() returns, in ms                         *)
(*   lastEmitTime : lastEmitTimeRef.current of every hook, a Map           *)
(*                  objectId -> time whose keys are the function's domain  *)
(*   calls        : how many times the emitters were called directly       *)
(*   lastThrottled : per hook and object id, the last emitUpdateObject     *)
(*                  call made while connected (auxiliary): when (at),      *)
(*                  whether it emitted (sent), whether a forced emission   *)
(*                  followed it (forced), whether a throttled call was     *)
(*                  made before it (paired) and, of that one, how long     *)
(*                  before (gap), whether it emitted (prevSent) and        *)
(*                  whether a forced emission came between the two         *)
(*                  (between)                                              *)
(***************************************************************************)
VARIABLES now, lastEmitTime, calls, lastThrottled

(***************************************************************************)
(* useCanvasHistory (client/src/types/canvas-objects.ts, lines 182-367).   *)
(*   hObjects  : the state `objects` after the setObjects calls made       *)
(*   rendered  : `objects` as of the last render: state.objects, and the   *)
(*               value the callbacks of that render close over             *)
(*   undoStack, redoStack : undoStackRef.current, redoStackRef.current     *)
(*   hcall, hret : the action called last (with the sizes of the stacks it *)
(*               found and whether the render it came from had seen the    *)
(*               current objects) and what it returned                     *)
(*   ops, commits, turns : how many actions were called, how many of them  *)
(*               pushState, and how often the action called was another    *)
(*               than the one before                                       *)
(*   stale     : whether pushState, undo or redo was ever called from a    *)
(*               render older than the current objects (auxiliary)         *)
(*   past      : the objects that were current right before every          *)
(*               pushState and redo not undone since (auxiliary)           *)
(*   undone    : the objects that were current right before every undo not *)
(*               redone since (auxiliary)                                  *)
(*   drag      : the drag gesture of the drawing map's user: the object,   *)
(*               where it was when the gesture began, how many drag-move   *)
(*               callbacks ran, whether drag-end ran (auxiliary)           *)
(***************************************************************************)
VARIABLES hObjects, rendered, undoStack, redoStack, hcall, hret,
          ops, commits, turns, stale, past, undone, drag

storeAux == <<call, ret, ref, refRet>>
relayVars == <<live, sockRoom, member, req, out>>
syncVars == <<isConnected, objects, up, down, gestures, hist>>
throttleVars == <<now, lastEmitTime, calls, lastThrottled>>
historyVars == <<hObjects, rendered, undoStack, redoStack, hcall, hret,
                 ops, commits, turns, stale, past, undone, drag>>
clientVars == <<syncVars, throttleVars, historyVars>>
vars == <<rooms, call, ret, ref, refRet, live, sockRoom, member, req, out,
          isConnected, objects, up, down, gestures, hist,
          now, lastEmitTime, calls, lastThrottled,
          hObjects, rendered, undoStack, redoStack, hcall, hret,
          ops, commits, turns, stale, past, undone, drag>>

Conns == {"A", "B"}

NoCall == [op |-> "none", roomId |-> Undefined, objectId |-> Undefined]
NoReq == [conn |-> Undefined, ev |-> "none", payload |-> Undefined]
NoOut == [d \in Conns |-> <<>>]
EmptyRef == [i \in {} |-> Undefined]

\* the state of a fresh server process with no connection yet
RelayInit ==
  /\ rooms = NewRoomManager
  /\ live = [c \in Conns |-> FALSE]
  /\ sockRoom = [c \in Conns |-> Undefined]
  /\ member = [c \in Conns |-> {}]
  /\ req = NoReq
  /\ out = NoOut

StoreAuxInit ==
  /\ call = NoCall
  /\ ret = Void
  /\ ref = [r \in RoomIds |-> EmptyRef]
  /\ refRet = Void

NoHist == [by |-> {}, made |-> 0, movers |-> {}, offline |-> FALSE,
           online |-> FALSE, audience |-> {}, intent |-> Undefined]

\* Date.now() when the page is mounted
StartTime == 1000

\* new Map(): no key
EmptyMap == [i \in {} |-> 0]

\* lastEmitTimeRef = useRef(new Map()); nothing called yet
ThrottleInit ==
  /\ now = StartTime
  /\ lastEmitTime = [c \in Conns |-> EmptyMap]
  /\ calls = 0
  /\ lastThrottled = [c \in Conns |-> EmptyMap]

NoHistoryCall == [op |-> "none", fresh |-> TRUE, undoBefore |-> 0, redoBefore |-> 0]

\* what a callback of useCanvasHistory returned: nothing (void), null, or a
\* list of objects
NoReturn == [kind |-> "undefined", objects |-> <<>>]
Null == [kind |-> "null", objects |-> <<>>]

\* no drag gesture was made since the last other action
NoDrag == [id |-> Undefined, from |-> <<>>, moves |-> 0, ended |-> FALSE]
Snapshot(objs) == [kind |-> "objects", objects |-> objs]

\* useCanvasHistory(initialObjects) just mounted and rendered
HistoryInit(initialObjects) ==
  /\ hObjects = initialObjects
  /\ rendered = initialObjects
  /\ undoStack = <<>>
  /\ redoStack = <<>>
  /\ hcall = NoHistoryCall
  /\ hret = NoReturn
  /\ ops = 0
  /\ commits = 0
  /\ turns = 0
  /\ stale = FALSE
  /\ past = <<>>
  /\ undone = <<>>
  /\ drag = NoDrag

\* the hooks just mounted: useState([]), useState(false), a socket that has
\* not connected yet, an empty throttle map, an empty canvas with no history
ClientInit ==
  /\ isConnected = [c \in Conns |-> FALSE]
  /\ objects = [c \in Conns |-> <<>>]
  /\ up = [c \in Conns |-> <<>>]
  /\ down = [c \in Conns |-> <<>>]
  /\ gestures = 0
  /\ hist = [i \in ObjIds |-> NoHist]
  /\ ThrottleInit
  /\ HistoryInit(<<>>)

(***************************************************************************)
(* The reference map of the model-based test: add = insert or overwrite    *)
(* by id, update = set x,y if present, delete = remove if present.         *)
(***************************************************************************)
RefAdd(f, object) ==
  [i \in DOMAIN f \cup {object.id} |-> IF i = object.id THEN object ELSE f[i]]

RefUpdate(f, objectId, position) ==
  IF objectId \in DOMAIN f
    THEN [f EXCEPT ![objectId] = [@ EXCEPT !.x = position.x, !.y = position.y]]
    ELSE f

RefDelete(f, objectId) == [i \in DOMAIN f \ {objectId} |-> f[i]]

(***************************************************************************)
(* SpecStore: the RoomManager methods called directly, as the unit tests   *)
(* call them.                                                              *)
(***************************************************************************)
CallGetOrCreateRoom(roomId) ==
  /\ rooms' = getOrCreateRoom(rooms, roomId)
  /\ call' = [op |-> "getOrCreateRoom", roomId |-> roomId, objectId |-> Undefined]
  /\ ret' = rooms'[roomId]
  /\ refRet' = Void
  /\ UNCHANGED <<ref, relayVars, clientVars>>

CallAddObject(roomId, object) ==
  /\ rooms' = addObject(rooms, roomId, object)
  /\ call' = [op |-> "addObject", roomId |-> roomId, objectId |-> object.id]
  /\ ret' = Void
  /\ ref' = [ref EXCEPT ![roomId] = RefAdd(@, object)]
  /\ refRet' = Void
  /\ UNCHANGED <<relayVars, clientVars>>

CallUpdateObjectPosition(roomId, objectId, position) ==
  LET res == updateObjectPosition(rooms, roomId, objectId, position)
  IN  /\ rooms' = res.rooms
      /\ call' = [op |-> "updateObjectPosition", roomId |-> roomId, objectId |-> objectId]
      /\ ret' = res.ret
      /\ ref' = [ref EXCEPT ![roomId] = RefUpdate(@, objectId, position)]
      /\ refRet' = (objectId \in DOMAIN ref[roomId])
      /\ UNCHANGED <<relayVars, clientVars>>

CallDeleteObject(roomId, objectId) ==
  LET res == deleteObject(rooms, roomId, objectId)
  IN  /\ rooms' = res.rooms
      /\ call' = [op |-> "deleteObject", roomId |-> roomId, objectId |-> objectId]
      /\ ret' = res.ret
      /\ ref' = [ref EXCEPT ![roomId] = RefDelete(@, objectId)]
      /\ refRet' = (objectId \in DOMAIN ref[roomId])
      /\ UNCHANGED <<relayVars, clientVars>>

CallGetRoomObjectsCreating(roomId) ==
  /\ rooms' = getOrCreateRoom(rooms, roomId)
  /\ call' = [op |-> "getRoomObjects", roomId |-> roomId, objectId |-> Undefined]
  /\ ret' = getRoomObjects(rooms', roomId)
  /\ refRet' = Void
  /\ UNCHANGED <<ref, relayVars, clientVars>>

CallGetRoomObjects(roomId) ==
  /\ call' = [op |-> "getRoomObjects", roomId |-> roomId, objectId |-> Undefined]
  /\ ret' = getRoomObjects(rooms, roomId)
  /\ refRet' = Void
  /\ UNCHANGED <<rooms, ref, relayVars, clientVars>>

CallDeleteRoom(roomId) ==
  /\ rooms' = deleteRoom(rooms, roomId)
  /\ call' = [op |-> "deleteRoom", roomId |-> roomId, objectId |-> Undefined]
  /\ ret' = Void
  /\ ref' = [ref EXCEPT ![roomId] = EmptyRef]
  /\ refRet' = Void
  /\ UNCHANGED <<relayVars, clientVars>>

CallHasRoom(roomId) ==
  /\ call' = [op |-> "hasRoom", roomId |-> roomId, objectId |-> Undefined]
  /\ ret' = hasRoom(rooms, roomId)
  /\ refRet' = Void
  /\ UNCHANGED <<rooms, ref, relayVars, clientVars>>

InitStore == RelayInit /\ StoreAuxInit /\ ClientInit

NextStore ==
  \/ \E r \in RoomIds : CallGetOrCreateRoom(r)
  \/ \E r \in RoomIds, o \in Objects : CallAddObject(r, o)
  \/ \E r \in RoomIds, i \in ObjIds, p \in Positions : CallUpdateObjectPosition(r, i, p)
  \/ \E r \in RoomIds, i \in ObjIds : CallDeleteObject(r, i)
  \/ \E r \in RoomIds : CallGetRoomObjects(r)
  \/ \E r \in RoomIds : CallDeleteRoom(r)
  \/ \E r \in RoomIds : CallHasRoom(r)

SpecStore == InitStore /\ [][NextStore]_vars


(***************************************************************************)
(* The relay (server/dist/index.js).  Every handler runs to completion;    *)
(* `out` collects what it sends: socket.emit reaches the socket itself,    *)
(* socket.to(roomId).emit every socket in the socket.io room but itself.   *)
(***************************************************************************)
FalsyEmptyOnly(v) == v = ""

\* !roomId
Falsy(v) == v = Undefined \/ v = ""

Event(ev, data) == [ev |-> ev, data |-> data]

IoEmit(c, ev, data) == [d \in Conns |-> <<Event(ev, data)>>]

SocketEmit(c, ev, data) ==
  [d \in Conns |-> IF d = c THEN <<Event(ev, data)>> ELSE <<>>]

IoToEmit(c, roomId, ev, data) ==
  [d \in Conns |-> IF roomId \in member[d] THEN <<Event(ev, data)>> ELSE <<>>]

SocketToEmit(c, roomId, ev, data) ==
  [d \in Conns |-> IF d # c /\ roomId \in member[d] THEN <<Event(ev, data)>> ELSE <<>>]

\* io.on('connection'): a fresh socket, no data, in no room
OnConnection(c) ==
  /\ ~live[c]
  /\ live' = [live EXCEPT ![c] = TRUE]
  /\ sockRoom' = [sockRoom EXCEPT ![c] = Undefined]
  /\ member' = [member EXCEPT ![c] = {}]
  /\ req' = [conn |-> c, ev |-> "connection", payload |-> Undefined]
  /\ out' = NoOut
  /\ UNCHANGED rooms

OnJoinRoom(c, payload) ==
  /\ live[c]
  /\ LET roomId == payload.roomId
         rs1 == getOrCreateRoom(rooms, roomId)
         objs == getRoomObjects(rs1, roomId)
     IN  /\ sockRoom' = [sockRoom EXCEPT ![c] = roomId]
         /\ member' = [member EXCEPT ![c] = @ \cup {roomId}]
         /\ rooms' = rs1
         /\ out' = SocketEmit(c, "room_state", objs)
  /\ req' = [conn |-> c, ev |-> "join_room", payload |-> payload]
  /\ UNCHANGED live

OnUpdateObjectUnchecked(c, payload) ==
  /\ live[c]
  /\ LET roomId == sockRoom[c]
     IN  IF Falsy(roomId)
           THEN /\ out' = NoOut
                /\ UNCHANGED rooms
           ELSE LET updated == updateObjectPosition(rooms, roomId, payload.objectId,
                                                    payload.position)
                IN  /\ rooms' = updated.rooms
                    /\ out' = SocketToEmit(c, roomId, "object_updated", payload)
  /\ req' = [conn |-> c, ev |-> "update_object", payload |-> payload]
  /\ UNCHANGED <<live, sockRoom, member>>

OnUpdateObject(c, payload) ==
  /\ live[c]
  /\ LET roomId == sockRoom[c]
     IN  IF Falsy(roomId)
           THEN /\ out' = NoOut
                /\ UNCHANGED rooms
           ELSE LET updated == updateObjectPosition(rooms, roomId, payload.objectId,
                                                    payload.position)
                IN  /\ rooms' = updated.rooms
                    /\ out' = IF updated.ret
                                THEN SocketToEmit(c, roomId, "object_updated", payload)
                                ELSE NoOut
  /\ req' = [conn |-> c, ev |-> "update_object", payload |-> payload]
  /\ UNCHANGED <<live, sockRoom, member>>

OnCreateObject(c, payload) ==
  /\ live[c]
  /\ LET roomId == sockRoom[c]
     IN  IF Falsy(roomId)
           THEN /\ out' = NoOut
                /\ UNCHANGED rooms
           ELSE /\ rooms' = addObject(rooms, roomId, payload)
                /\ out' = SocketToEmit(c, roomId, "object_created", payload)
  /\ req' = [conn |-> c, ev |-> "create_object", payload |-> payload]
  /\ UNCHANGED <<live, sockRoom, member>>

\* the client's delete_object: the connection callback registers no listener
\* for it, so the event is received and nothing runs
OnDeleteObject(c, payload) ==
  /\ live[c]
  /\ out' = NoOut
  /\ req' = [conn |-> c, ev |-> "delete_object", payload |-> payload]
  /\ UNCHANGED <<rooms, live, sockRoom, member>>

OnPing(c) ==
  /\ live[c]
  /\ out' = SocketEmit(c, "pong", Undefined)
  /\ req' = [conn |-> c, ev |-> "ping", payload |-> Undefined]
  /\ UNCHANGED <<rooms, live, sockRoom, member>>

OnDisconnectCleaning(c) ==
  /\ live[c]
  /\ live' = [live EXCEPT ![c] = FALSE]
  /\ sockRoom' = [sockRoom EXCEPT ![c] = Undefined]
  /\ member' = [member EXCEPT ![c] = {}]
  /\ req' = [conn |-> c, ev |-> "disconnect", payload |-> Undefined]
  /\ out' = NoOut
  /\ rooms' = deleteRoom(rooms, sockRoom[c])

\* socket.on('disconnect') only logs; socket.io has taken the closed socket
\* out of its rooms
OnDisconnect(c) ==
  /\ live[c]
  /\ live' = [live EXCEPT ![c] = FALSE]
  /\ sockRoom' = [sockRoom EXCEPT ![c] = Undefined]
  /\ member' = [member EXCEPT ![c] = {}]
  /\ req' = [conn |-> c, ev |-> "disconnect", payload |-> Undefined]
  /\ out' = NoOut
  /\ UNCHANGED rooms

UpdatePayloads == {[objectId |-> i, position |-> p] : i \in ObjIds, p \in Positions}

\* the objects the connections create: every id with its kind, at any position
CreatePayloads == {o \in Objects : o.type = (IF o.id = "o1" THEN "x" ELSE "catapult")}

(***************************************************************************)
(* SpecRelay: connections that send any protocol event in any order.       *)
(***************************************************************************)
InitRelay == RelayInit /\ StoreAuxInit /\ ClientInit

NextRelay ==
  \/ \E c \in Conns : OnConnection(c) /\ UNCHANGED <<storeAux, clientVars>>
  \/ \E c \in Conns, r \in RoomIds : OnJoinRoom(c, [roomId |-> r]) /\ UNCHANGED <<storeAux, clientVars>>
  \/ \E c \in Conns, u \in UpdatePayloads : OnUpdateObject(c, u) /\ UNCHANGED <<storeAux, clientVars>>
  \/ \E c \in Conns, o \in CreatePayloads : OnCreateObject(c, o) /\ UNCHANGED <<storeAux, clientVars>>
  \/ \E c \in Conns, i \in ObjIds : OnDeleteObject(c, [objectId |-> i]) /\ UNCHANGED <<storeAux, clientVars>>
  \/ \E c \in Conns : OnPing(c) /\ UNCHANGED <<storeAux, clientVars>>
  \/ \E c \in Conns : OnDisconnect(c) /\ UNCHANGED <<storeAux, clientVars>>

SpecRelay == InitRelay /\ [][NextRelay]_vars

(***************************************************************************)
(* The client: useRoomSync(roomId) as TacticsMap uses it.  setObjects with *)
(* an updater function is applied to the list as it is when the update     *)
(* runs, so each operator maps the previous list to the next one.          *)
(***************************************************************************)
MaxGestures == 3

\* the roomId prop of every client's page: both users opened the same link
RoomOf == [c \in Conns |-> "r1"]

\* what the users click into being: each id names one object
ClickObjects ==
  {[id |-> "o1", x |-> 10, y |-> 20, type |-> "x"],
   [id |-> "o2", x |-> 50, y |-> 60, type |-> "catapult"]}

Msg(ev, payload) == [ev |-> ev, payload |-> payload]

\* setObjects(roomObjects)
onRoomState(prev, roomObjects) == roomObjects

onObjectUpdatedXOnly(prev, payload) ==
  [i \in 1..Len(prev) |->
     IF prev[i].id = payload.objectId
       THEN [prev[i] EXCEPT !.x = payload.position.x]
       ELSE prev[i]]

\* setObjects(prev => prev.map(...)) of the object_updated listener
onObjectUpdated(prev, payload) ==
  [i \in 1..Len(prev) |->
     IF prev[i].id = payload.objectId
       THEN [prev[i] EXCEPT !.x = payload.position.x, !.y = payload.position.y]
       ELSE prev[i]]

onObjectCreatedUpsert(prev, newObject) ==
  IF \E k \in 1..Len(prev) : prev[k].id = newObject.id
    THEN [k \in 1..Len(prev) |-> IF prev[k].id = newObject.id THEN newObject ELSE prev[k]]
    ELSE Append(prev, newObject)

\* setObjects(prev => [...prev, newObject])
onObjectCreated(prev, newObject) == Append(prev, newObject)

updateObjectLocal(prev, objectId, position) ==
  [i \in 1..Len(prev) |->
     IF prev[i].id = objectId
       THEN [prev[i] EXCEPT !.x = position.x, !.y = position.y]
       ELSE prev[i]]

THROTTLE_INTERVAL == 16

\* Map.prototype.set on lastEmitTimeRef.current
TimeSet(m, objectId, t) ==
  [i \in DOMAIN m \cup {objectId} |-> IF i = objectId THEN t ELSE m[i]]

\* lastEmitTimeRef.current.get(objectId) || 0
TimeGetOrZero(m, objectId) == IF objectId \in DOMAIN m THEN m[objectId] ELSE 0

emitUpdateObjectStrictlyLater(c, objectId, position) ==
  IF ~isConnected[c]
    THEN [sent |-> <<>>, last |-> lastEmitTime[c]]
    ELSE IF now - TimeGetOrZero(lastEmitTime[c], objectId) > THROTTLE_INTERVAL
      THEN [sent |-> <<Msg("update_object",
                           [objectId |-> objectId, position |-> position])>>,
            last |-> TimeSet(lastEmitTime[c], objectId, now)]
      ELSE [sent |-> <<>>, last |-> lastEmitTime[c]]

emitUpdateObjectOneWindow(c, objectId, position) ==
  IF ~isConnected[c]
    THEN [sent |-> <<>>, last |-> lastEmitTime[c]]
    ELSE IF now - TimeGetOrZero(lastEmitTime[c], objectId) >= THROTTLE_INTERVAL
      THEN [sent |-> <<Msg("update_object",
                           [objectId |-> objectId, position |-> position])>>,
            last |-> [i \in ObjIds |-> now]]
      ELSE [sent |-> <<>>, last |-> lastEmitTime[c]]

\* emitUpdateObject: what it adds to the socket's outgoing events (sent) and
\* what it leaves in lastEmitTimeRef.current (last)
emitUpdateObject(c, objectId, position) ==
  IF ~isConnected[c]
    THEN [sent |-> <<>>, last |-> lastEmitTime[c]]
    ELSE IF now - TimeGetOrZero(lastEmitTime[c], objectId) >= THROTTLE_INTERVAL
      THEN [sent |-> <<Msg("update_object",
                           [objectId |-> objectId, position |-> position])>>,
            last |-> TimeSet(lastEmitTime[c], objectId, now)]
      ELSE [sent |-> <<>>, last |-> lastEmitTime[c]]

emitUpdateObjectForceThrottled(c, objectId, position) ==
  emitUpdateObject(c, objectId, position).sent

\* what emitUpdateObjectForce adds to the socket's outgoing events
emitUpdateObjectForce(c, objectId, position) ==
  IF ~isConnected[c]
    THEN <<>>
    ELSE <<Msg("update_object", [objectId |-> objectId, position |-> position])>>

\* what emitUpdateObjectForce leaves in lastEmitTimeRef.current
forceLastEmitTime(c, objectId) ==
  IF ~isConnected[c]
    THEN lastEmitTime[c]
    ELSE TimeSet(lastEmitTime[c], objectId, now)

\* a call of emitUpdateObject: the socket's outgoing events and the throttle
\* map after it
EmitUpdateObject(c, objectId, position) ==
  LET e == emitUpdateObject(c, objectId, position)
      first == objectId \notin DOMAIN lastThrottled[c]
      prev == lastThrottled[c][objectId]
  IN  /\ up' = [up EXCEPT ![c] = @ \o e.sent]
      /\ lastEmitTime' = [lastEmitTime EXCEPT ![c] = e.last]
      /\ lastThrottled' =
           IF isConnected[c]
             THEN [lastThrottled EXCEPT ![c] =
                     TimeSet(@, objectId,
                             [at |-> now, sent |-> e.sent # <<>>, forced |-> FALSE,
                              paired |-> ~first,
                              gap |-> IF first THEN 0 ELSE now - prev.at,
                              prevSent |-> IF first THEN FALSE ELSE prev.sent,
                              between |-> IF first THEN FALSE ELSE prev.forced])]
             ELSE lastThrottled

\* a call of emitUpdateObjectForce
EmitUpdateObjectForce(c, objectId, position) ==
  /\ up' = [up EXCEPT ![c] = @ \o emitUpdateObjectForce(c, objectId, position)]
  /\ lastEmitTime' = [lastEmitTime EXCEPT ![c] = forceLastEmitTime(c, objectId)]
  /\ lastThrottled' =
       IF isConnected[c] /\ objectId \in DOMAIN lastThrottled[c]
         THEN [lastThrottled EXCEPT ![c][objectId].forced = TRUE]
         ELSE lastThrottled

\* the transport is up: the relay's connection callback runs, then the
\* client's 'connect' listener sets isConnected and emits join_room
Connect(c) ==
  /\ OnConnection(c)
  /\ isConnected' = [isConnected EXCEPT ![c] = TRUE]
  /\ up' = [up EXCEPT ![c] = Append(@, Msg("join_room", [roomId |-> RoomOf[c]]))]
  /\ UNCHANGED <<objects, down, gestures, hist, storeAux, throttleVars, historyVars>>

CreateObjectUnguarded(c, object) ==
  /\ gestures < MaxGestures
  /\ gestures' = gestures + 1
  /\ objects' = [objects EXCEPT ![c] = Append(@, object)]
  /\ up' = [up EXCEPT ![c] = Append(@, Msg("create_object", object))]
  /\ hist' = [hist EXCEPT ![object.id] =
                [by |-> @.by \cup {c},
                 made |-> @.made + 1,
                 movers |-> @.movers,
                 offline |-> @.offline \/ ~isConnected[c],
                 online |-> @.online \/ isConnected[c],
                 audience |-> IF @.made = 0
                                THEN {d \in Conns \ {c} : sockRoom[d] = RoomOf[c]}
                                ELSE @.audience,
                 intent |-> IF @.made = 0 THEN object ELSE @.intent]]
  /\ UNCHANGED <<down, isConnected, rooms, relayVars, storeAux>>
  /\ UNCHANGED <<throttleVars, historyVars>>

\* handleStageClick -> createObject(object)
CreateObject(c, object) ==
  /\ gestures < MaxGestures
  /\ gestures' = gestures + 1
  /\ objects' = [objects EXCEPT ![c] = Append(@, object)]
  /\ up' = [up EXCEPT ![c] = IF isConnected[c]
                               THEN Append(@, Msg("create_object", object))
                               ELSE @]
  /\ hist' = [hist EXCEPT ![object.id] =
                [by |-> @.by \cup {c},
                 made |-> @.made + 1,
                 movers |-> @.movers,
                 offline |-> @.offline \/ ~isConnected[c],
                 online |-> @.online \/ isConnected[c],
                 audience |-> IF @.made = 0
                                THEN {d \in Conns \ {c} : sockRoom[d] = RoomOf[c]}
                                ELSE @.audience,
                 intent |-> IF @.made = 0 THEN object ELSE @.intent]]
  /\ UNCHANGED <<down, isConnected, rooms, relayVars, storeAux>>
  /\ UNCHANGED <<throttleVars, historyVars>>

\* handleDragEnd of an object the map shows: updateObjectLocal, then
\* emitUpdateObjectForce
HandleDragEnd(c, objectId, position) ==
  /\ gestures < MaxGestures
  /\ \E i \in 1..Len(objects[c]) : objects[c][i].id = objectId
  /\ gestures' = gestures + 1
  /\ objects' = [objects EXCEPT ![c] = updateObjectLocal(@, objectId, position)]
  /\ hist' = [hist EXCEPT ![objectId] =
                [by |-> @.by \cup {c},
                 made |-> @.made,
                 movers |-> @.movers \cup {c},
                 offline |-> @.offline \/ ~isConnected[c],
                 online |-> @.online \/ isConnected[c],
                 audience |-> @.audience,
                 intent |-> IF @.made = 0
                              THEN @.intent
                              ELSE [@.intent EXCEPT !.x = position.x, !.y = position.y]]]
  /\ EmitUpdateObjectForce(c, objectId, position)
  /\ UNCHANGED <<down, isConnected, rooms, relayVars, storeAux>>
  /\ UNCHANGED <<now, calls, historyVars>>

\* the relay takes the next event of connection c off the link; what the
\* handler sends is queued for its receivers
Relayed(c) ==
  /\ up' = [up EXCEPT ![c] = Tail(@)]
  /\ down' = [d \in Conns |-> down[d] \o out'[d]]
  /\ UNCHANGED <<isConnected, objects, gestures, hist, storeAux, throttleVars, historyVars>>

RelayJoinRoom(c) ==
  /\ up[c] # <<>> /\ Head(up[c]).ev = "join_room"
  /\ OnJoinRoom(c, Head(up[c]).payload)
  /\ Relayed(c)

RelayUpdateObject(c) ==
  /\ up[c] # <<>> /\ Head(up[c]).ev = "update_object"
  /\ OnUpdateObject(c, Head(up[c]).payload)
  /\ Relayed(c)

RelayCreateObject(c) ==
  /\ up[c] # <<>> /\ Head(up[c]).ev = "create_object"
  /\ OnCreateObject(c, Head(up[c]).payload)
  /\ Relayed(c)

\* the client's listeners
Received(c) ==
  /\ down' = [down EXCEPT ![c] = Tail(@)]
  /\ UNCHANGED <<isConnected, up, gestures, hist, rooms, relayVars, storeAux>>
  /\ UNCHANGED <<throttleVars, historyVars>>

OnRoomState(c) ==
  /\ down[c] # <<>> /\ Head(down[c]).ev = "room_state"
  /\ objects' = [objects EXCEPT ![c] = onRoomState(@, Head(down[c]).data)]
  /\ Received(c)

OnObjectUpdated(c) ==
  /\ down[c] # <<>> /\ Head(down[c]).ev = "object_updated"
  /\ objects' = [objects EXCEPT ![c] = onObjectUpdated(@, Head(down[c]).data)]
  /\ Received(c)

OnObjectCreated(c) ==
  /\ down[c] # <<>> /\ Head(down[c]).ev = "object_created"
  /\ objects' = [objects EXCEPT ![c] = onObjectCreated(@, Head(down[c]).data)]
  /\ Received(c)

(***************************************************************************)
(* Time, the throttled drag and the loss of the connection.                *)
(***************************************************************************)
MaxElapsed == 32

\* the time between two events of the page, in ms
Delays == {5, 16}

\* Date.now() grows between two calls
Tick(d) ==
  /\ now + d <= StartTime + MaxElapsed
  /\ now' = now + d
  /\ UNCHANGED <<lastEmitTime, calls, lastThrottled>>
  /\ UNCHANGED <<rooms, storeAux, relayVars, syncVars, historyVars>>

\* handleDragMove of an object the map shows: updateObjectLocal, then
\* emitUpdateObject
HandleDragMove(c, objectId, position) ==
  /\ gestures < MaxGestures
  /\ \E i \in 1..Len(objects[c]) : objects[c][i].id = objectId
  /\ gestures' = gestures + 1
  /\ objects' = [objects EXCEPT ![c] = updateObjectLocal(@, objectId, position)]
  /\ EmitUpdateObject(c, objectId, position)
  /\ hist' = [hist EXCEPT ![objectId].by = @ \cup {c},
                          ![objectId].movers = @ \cup {c},
                          ![objectId].offline = @ \/ ~isConnected[c],
                          ![objectId].online = @ \/ isConnected[c]]
  /\ UNCHANGED <<now, calls, down, isConnected, rooms, relayVars, storeAux>>
  /\ UNCHANGED historyVars

\* the transport is lost: the relay's 'disconnect' listener runs on the
\* socket, the client's 'disconnect' listener clears isConnected, and what was
\* in flight in either direction is gone
Disconnect(c) ==
  /\ isConnected[c]
  /\ OnDisconnect(c)
  /\ isConnected' = [isConnected EXCEPT ![c] = FALSE]
  /\ up' = [up EXCEPT ![c] = <<>>]
  /\ down' = [down EXCEPT ![c] = <<>>]
  /\ UNCHANGED <<objects, gestures, hist, storeAux, throttleVars, historyVars>>

MaxCalls == 3

\* emitUpdateObject called directly, as the hook's unit tests call it
CallEmitUpdateObject(c, objectId, position) ==
  /\ calls < MaxCalls
  /\ calls' = calls + 1
  /\ EmitUpdateObject(c, objectId, position)
  /\ UNCHANGED <<now, isConnected, objects, down, gestures, hist>>
  /\ UNCHANGED <<rooms, storeAux, relayVars, historyVars>>

\* emitUpdateObjectForce called directly
CallEmitUpdateObjectForce(c, objectId, position) ==
  /\ calls < MaxCalls
  /\ calls' = calls + 1
  /\ EmitUpdateObjectForce(c, objectId, position)
  /\ UNCHANGED <<now, isConnected, objects, down, gestures, hist>>
  /\ UNCHANGED <<rooms, storeAux, relayVars, historyVars>>

(***************************************************************************)
(* SpecThrottle: one hook whose emitters are called as time passes.        *)
(***************************************************************************)
Users == {"A"}

InitThrottle == RelayInit /\ StoreAuxInit /\ ClientInit

NextThrottle ==
  \/ \E d \in Delays : Tick(d)
  \/ \E c \in Users : Connect(c)
  \/ \E c \in Users : Disconnect(c)
  \/ \E c \in Users, i \in ObjIds, p \in Positions : CallEmitUpdateObject(c, i, p)
  \/ \E c \in Users, i \in ObjIds, p \in Positions : CallEmitUpdateObjectForce(c, i, p)

SpecThrottle == InitThrottle /\ [][NextThrottle]_vars

(***************************************************************************)
(* SpecOffline: one browser whose connection comes and goes, and the relay *)
(* at the other end of the link.                                           *)
(***************************************************************************)
InitOffline == RelayInit /\ StoreAuxInit /\ ClientInit

NextOffline ==
  \/ \E c \in Users : Connect(c)
  \/ \E c \in Users : Disconnect(c)
  \/ \E c \in Users, o \in ClickObjects : CreateObject(c, o)
  \/ \E c \in Users, i \in ObjIds, p \in Positions : HandleDragMove(c, i, p)
  \/ \E c \in Users, i \in ObjIds, p \in Positions : HandleDragEnd(c, i, p)
  \/ \E c \in Users : RelayJoinRoom(c)
  \/ \E c \in Users : RelayUpdateObject(c)
  \/ \E c \in Users : RelayCreateObject(c)
  \/ \E c \in Users : OnRoomState(c)

SpecOffline == InitOffline /\ [][NextOffline]_vars

(***************************************************************************)
(* SpecInbound: one hook whose listeners are called with any event in any  *)
(* order, as the hook's unit tests call them.                              *)
(***************************************************************************)
MaxList == 3

\* the position the test moves an object to
MovedTo == [x |-> 500, y |-> 600]

\* what a room_state carries: the values of a Map, so no id twice
RoomStates ==
  {<<>>} \cup {<<o>> : o \in CreatePayloads}
         \cup {<<o, q>> : o \in {t \in CreatePayloads : t.id = "o1"},
                          q \in {t \in CreatePayloads : t.id = "o2"}}

InboundEvents ==
  {Event("room_state", l) : l \in RoomStates}
    \cup {Event("object_created", o) : o \in CreatePayloads}
    \cup {Event("object_updated", [objectId |-> i, position |-> p]) :
            i \in ObjIds, p \in Positions \cup {MovedTo}}

\* the socket of hook c receives event e; the list the hook shows stays
\* within MaxList objects
Arrive(c, e) ==
  /\ down[c] = <<>>
  /\ e.ev = "object_created" => Len(objects[c]) < MaxList
  /\ down' = [down EXCEPT ![c] = <<e>>]
  /\ UNCHANGED <<isConnected, objects, up, gestures, hist>>
  /\ UNCHANGED <<rooms, storeAux, relayVars, throttleVars, historyVars>>

InitInbound == RelayInit /\ StoreAuxInit /\ ClientInit

NextInbound ==
  \/ \E c \in Users, e \in InboundEvents : Arrive(c, e)
  \/ \E c \in Users : OnRoomState(c)
  \/ \E c \in Users : OnObjectUpdated(c)
  \/ \E c \in Users : OnObjectCreated(c)

SpecInbound == InitInbound /\ [][NextInbound]_vars

(***************************************************************************)
(* SpecLeave: a browser that creates objects while its connection comes    *)
(* and goes, a second browser that opens the same room, and the relay.     *)
(***************************************************************************)
InitLeave == RelayInit /\ StoreAuxInit /\ ClientInit

NextLeave ==
  \/ \E c \in Conns : Connect(c)
  \/ \E c \in Users : Disconnect(c)
  \/ \E c \in Users, o \in ClickObjects : CreateObject(c, o)
  \/ \E c \in Conns : RelayJoinRoom(c)
  \/ \E c \in Conns : RelayCreateObject(c)
  \/ \E c \in Conns : OnRoomState(c)
  \/ \E c \in Conns : OnObjectCreated(c)

SpecLeave == InitLeave /\ [][NextLeave]_vars

(***************************************************************************)
(* useCanvasHistory.  pushState, undo and redo are callbacks of a render:  *)
(* `objs` is the `objects` that render saw, `us` and `rs` are the stacks   *)
(* in the refs.  Each gives the stacks it leaves, what it passes to        *)
(* setObjects (set, empty if it does not call it) and what it returns.     *)
(***************************************************************************)
MAX_HISTORY_SIZE == 20


\* Array.prototype.slice(-n)
SliceLast(q, n) ==
  IF n = 0 \/ Len(q) <= n THEN q ELSE SubSeq(q, Len(q) - n + 1, Len(q))

\* Array.prototype.slice(0, -1)
SliceButLast(q) == SubSeq(q, 1, Len(q) - 1)

pushStateKeepRedo(objs, us, rs, newObjects) ==
  [undo |-> Append(SliceLast(us, MAX_HISTORY_SIZE - 1), objs),
   redo |-> rs,
   set |-> <<newObjects>>,
   ret |-> NoReturn]

pushStateSliceMax(objs, us, rs, newObjects) ==
  [undo |-> Append(SliceLast(us, MAX_HISTORY_SIZE), objs),
   redo |-> <<>>,
   set |-> <<newObjects>>,
   ret |-> NoReturn]

pushState(objs, us, rs, newObjects) ==
  [undo |-> Append(SliceLast(us, MAX_HISTORY_SIZE - 1), objs),
   redo |-> <<>>,
   set |-> <<newObjects>>,
   ret |-> NoReturn]

undoInstallingEmpty(objs, us, rs) ==
  IF Len(us) = 0
    THEN [undo |-> us, redo |-> Append(rs, objs), set |-> <<<<>>>>, ret |-> Snapshot(<<>>)]
    ELSE [undo |-> SliceButLast(us),
          redo |-> Append(rs, objs),
          set |-> <<us[Len(us)]>>,
          ret |-> Snapshot(us[Len(us)])]

undo(objs, us, rs) ==
  IF Len(us) = 0
    THEN [undo |-> us, redo |-> rs, set |-> <<>>, ret |-> Null]
    ELSE [undo |-> SliceButLast(us),
          redo |-> Append(rs, objs),
          set |-> <<us[Len(us)]>>,
          ret |-> Snapshot(us[Len(us)])]

redo(objs, us, rs) ==
  IF Len(rs) = 0
    THEN [undo |-> us, redo |-> rs, set |-> <<>>, ret |-> Null]
    ELSE [undo |-> Append(us, objs),
          redo |-> SliceButLast(rs),
          set |-> <<rs[Len(rs)]>>,
          ret |-> Snapshot(rs[Len(rs)])]

\* the hook's state.canUndo, canRedo, undoCount, redoCount
canUndo == Len(undoStack) > 0
canRedo == Len(redoStack) > 0
undoCount == Len(undoStack)
redoCount == Len(redoStack)

\* what every call notes
Called(op) ==
  /\ hcall' = [op |-> op, fresh |-> (rendered = hObjects),
               undoBefore |-> Len(undoStack), redoBefore |-> Len(redoStack)]
  /\ stale' = (stale \/ (op \in {"pushState", "undo", "redo"} /\ rendered # hObjects))

\* the callback's effect on the refs and on the state
Applied(res) ==
  /\ undoStack' = res.undo
  /\ redoStack' = res.redo
  /\ hObjects' = IF res.set = <<>> THEN hObjects ELSE res.set[1]
  /\ hret' = res.ret

NotHistory == <<rooms, storeAux, relayVars, syncVars, throttleVars>>

\* actions.pushState called by a component that does more in the same
\* handler
HookPushState(newObjects) ==
  /\ Applied(pushState(rendered, undoStack, redoStack, newObjects))
  /\ Called("pushState")
  /\ past' = Append(past, hObjects)
  /\ undone' = <<>>
  /\ UNCHANGED rendered

PushState(newObjects) ==
  /\ HookPushState(newObjects)
  /\ UNCHANGED NotHistory

Undo ==
  /\ Applied(undo(rendered, undoStack, redoStack))
  /\ Called("undo")
  /\ IF hret' = Null
       THEN UNCHANGED <<past, undone>>
       ELSE /\ past' = SliceButLast(past)
            /\ undone' = Append(undone, hObjects)
  /\ UNCHANGED <<rendered, NotHistory>>

Redo ==
  /\ Applied(redo(rendered, undoStack, redoStack))
  /\ Called("redo")
  /\ IF hret' = Null
       THEN UNCHANGED <<past, undone>>
       ELSE /\ undone' = SliceButLast(undone)
            /\ past' = Append(past, hObjects)
  /\ UNCHANGED <<rendered, NotHistory>>

SetObjectsWithoutHistoryPushing(newObjects) ==
  /\ Applied(pushState(rendered, undoStack, redoStack, newObjects))
  /\ Called("setObjectsWithoutHistory")
  /\ UNCHANGED <<past, undone, rendered, NotHistory>>

\* actions.setObjectsWithoutHistory called by a component that does more in
\* the same handler
HookSetObjectsWithoutHistory(newObjects) ==
  /\ hObjects' = newObjects
  /\ hret' = NoReturn
  /\ Called("setObjectsWithoutHistory")
  /\ UNCHANGED <<undoStack, redoStack, past, undone, rendered>>

SetObjectsWithoutHistory(newObjects) ==
  /\ HookSetObjectsWithoutHistory(newObjects)
  /\ UNCHANGED NotHistory

ClearHistory ==
  /\ undoStack' = <<>>
  /\ redoStack' = <<>>
  /\ hret' = NoReturn
  /\ Called("clearHistory")
  /\ past' = <<>>
  /\ undone' = <<>>
  /\ UNCHANGED <<hObjects, rendered, NotHistory>>

\* React renders the component again: state.objects and the callbacks'
\* `objects` are the current ones
Render ==
  /\ rendered # hObjects
  /\ rendered' = hObjects
  /\ UNCHANGED <<hObjects, undoStack, redoStack, hcall, hret, stale, past, undone>>
  /\ UNCHANGED <<ops, commits, turns, drag, NotHistory>>

(***************************************************************************)
(* SpecHistory: the hook's actions called in any order with any canvas,    *)
(* also several in one event tick (before the next render).                *)
(***************************************************************************)
MaxHistoryOps == 5

Circle1 == [id |-> "1", type |-> "circle", x |-> 100, y |-> 100]
Rectangle2 == [id |-> "2", type |-> "rectangle", x |-> 200, y |-> 200]

\* the canvases the tests commit
Canvases == {<<>>, <<Circle1>>, <<Circle1, Rectangle2>>}

\* one more call, in a behaviour of at most MaxHistoryOps calls
Counted ==
  /\ ops < MaxHistoryOps
  /\ ops' = ops + 1
  /\ UNCHANGED <<commits, turns, drag>>

InitHistory ==
  /\ RelayInit /\ StoreAuxInit
  /\ isConnected = [c \in Conns |-> FALSE]
  /\ objects = [c \in Conns |-> <<>>]
  /\ up = [c \in Conns |-> <<>>]
  /\ down = [c \in Conns |-> <<>>]
  /\ gestures = 0
  /\ hist = [i \in ObjIds |-> NoHist]
  /\ ThrottleInit
  /\ \E initialObjects \in {<<>>, <<Circle1>>} : HistoryInit(initialObjects)

NextHistory ==
  \/ \E n \in Canvases : PushState(n) /\ Counted
  \/ Undo /\ Counted
  \/ Redo /\ Counted
  \/ \E n \in Canvases : SetObjectsWithoutHistory(n) /\ Counted
  \/ ClearHistory /\ Counted
  \/ Render

SpecHistory == InitHistory /\ [][NextHistory]_vars

(***************************************************************************)
(* SpecHistoryLong: long runs of the hook's actions, the k-th commit being  *)
(* the canvas Edit(k).                                                     *)
(***************************************************************************)
MaxCommits == 25
MaxTurns == 3
MaxStaleTurns == 1

\* the canvas of the k-th commit, as the capacity test draws it
Edit(k) == IF k = 0 THEN <<>>
           ELSE <<[id |-> ToString(k), type |-> "circle", x |-> k * 10, y |-> k * 10]>>

\* the canvas a peer sends
PeerCanvas == <<Rectangle2>>

\* one more call of action op, in a behaviour that changes action at most
\* MaxTurns times; one pushState, undo or redo may be called before the
\* render that follows the call before it, in a behaviour that changes
\* action at most MaxStaleTurns times
Turned(op) ==
  /\ rendered = hObjects \/ (op \in {"pushState", "undo", "redo"} /\ ~stale)
  /\ hcall.op \in {"none", op} \/ turns < MaxTurns
  /\ turns' = IF hcall.op \in {"none", op} THEN turns ELSE turns + 1
  /\ stale' => turns' <= MaxStaleTurns
  /\ commits' = IF op = "pushState" THEN commits + 1 ELSE commits
  /\ UNCHANGED <<ops, drag>>

InitHistoryLong == RelayInit /\ StoreAuxInit /\ ClientInit

NextHistoryLong ==
  \/ commits < MaxCommits /\ PushState(Edit(commits + 1)) /\ Turned("pushState")
  \/ Undo /\ Turned("undo")
  \/ Redo /\ Turned("redo")
  \/ SetObjectsWithoutHistory(PeerCanvas) /\ Turned("setObjectsWithoutHistory")
  \/ ClearHistory /\ Turned("clearHistory")
  \/ Render

SpecHistoryLong == InitHistoryLong /\ [][NextHistoryLong]_vars

(***************************************************************************)
(* TacticsMapWithDrawing (client/src/components/SquadLayer.tsx), the map   *)
(* with the drawing tools: useCanvasHistory([]) holds the list (hObjects), *)
(* the handlers of the tools commit with pushState and emit, and the       *)
(* socket listeners are registered by an effect that runs once per roomId. *)
(* One browser, the user of Users, shows this map.                         *)
(***************************************************************************)
MaxDrawOps == 4

\* historyState.objects in the render whose effect registered the socket
\* listeners: the first one, useCanvasHistory([])
MountObjects == <<>>

\* where the pointer can be during a drag
DragPositions == Positions \cup {MovedTo}

\* a cast: the same fields
roomObjectToCanvasObject(obj) == obj

\* the lists the socket listeners give to setObjectsWithoutHistory;
\* `closure` is the historyState.objects the listener reads
drawingOnRoomState(roomObjects) ==
  [i \in 1..Len(roomObjects) |-> roomObjectToCanvasObject(roomObjects[i])]

drawingOnObjectCreated(closure, obj) ==
  Append(closure, roomObjectToCanvasObject(obj))

drawingOnObjectDeleted(closure, payload) ==
  SelectSeq(closure, LAMBDA o : o.id # payload.objectId)

drawingOnObjectUpdated(closure, payload) ==
  [i \in 1..Len(closure) |->
     IF closure[i].id = payload.objectId
       THEN [closure[i] EXCEPT !.x = payload.position.x, !.y = payload.position.y]
       ELSE closure[i]]

\* the list handleObjectDrag and handleObjectDragEnd build
draggedTo(objs, id, position) ==
  [i \in 1..Len(objs) |->
     IF objs[i].id = id
       THEN [objs[i] EXCEPT !.x = position.x, !.y = position.y]
       ELSE objs[i]]

Shows(objs, id) == \E i \in 1..Len(objs) : objs[i].id = id

PositionOf(objs, id) ==
  LET o == objs[CHOOSE i \in 1..Len(objs) : objs[i].id = id]
  IN  [x |-> o.x, y |-> o.y]

\* one more action of the user on the rendered map, in a behaviour of at
\* most MaxDrawOps of them
UserDid ==
  /\ ops < MaxDrawOps
  /\ rendered = hObjects
  /\ ops' = ops + 1
  /\ UNCHANGED <<commits, turns>>

\* `if (socket && isConnected) socket.emit(ev, payload)`
EmitIfConnected(c, ev, payload) ==
  /\ up' = [up EXCEPT ![c] = IF isConnected[c] THEN Append(@, Msg(ev, payload)) ELSE @]
  /\ UNCHANGED <<isConnected, objects, down, gestures>>
  /\ UNCHANGED <<rooms, storeAux, relayVars, throttleVars>>

\* handleMouseUp / handleMouseDown of the text tool: the finished object
\* (generateId(): an id nobody has) is committed, then emitCreateObject
DrawObject(c, object) ==
  /\ UserDid
  /\ hist[object.id].made = 0 /\ ~Shows(hObjects, object.id)
  /\ HookPushState(Append(rendered, object))
  /\ EmitIfConnected(c, "create_object", object)
  /\ hist' = [hist EXCEPT ![object.id].by = @ \cup {c},
                          ![object.id].made = @ + 1,
                          ![object.id].offline = @ \/ ~isConnected[c],
                          ![object.id].online = @ \/ isConnected[c],
                          ![object.id].intent = object]
  /\ drag' = NoDrag

\* handleObjectDelete(id), the eraser on a shown object
HandleObjectDelete(c, id) ==
  /\ UserDid
  /\ Shows(rendered, id)
  /\ HookPushState(SelectSeq(rendered, LAMBDA o : o.id # id))
  /\ EmitIfConnected(c, "delete_object", [objectId |-> id])
  /\ drag' = NoDrag
  /\ UNCHANGED hist

\* handleObjectDrag(id, x, y), Konva's dragmove on a shown object
HandleObjectDrag(c, id, position) ==
  /\ UserDid
  /\ Shows(rendered, id)
  /\ HookSetObjectsWithoutHistory(draggedTo(rendered, id, position))
  /\ drag' = IF drag.id = id /\ ~drag.ended
               THEN [drag EXCEPT !.moves = @ + 1]
               ELSE [id |-> id, from |-> <<PositionOf(rendered, id)>>,
                     moves |-> 1, ended |-> FALSE]
  /\ UNCHANGED <<rooms, storeAux, relayVars, syncVars, throttleVars>>

\* handleObjectDragEnd(id, x, y), Konva's dragend
HandleObjectDragEnd(c, id, position) ==
  /\ UserDid
  /\ Shows(rendered, id)
  /\ HookPushState(draggedTo(rendered, id, position))
  /\ EmitIfConnected(c, "update_object", [objectId |-> id, position |-> position])
  /\ drag' = IF drag.id = id /\ ~drag.ended
               THEN [drag EXCEPT !.ended = TRUE]
               ELSE [id |-> id, from |-> <<PositionOf(rendered, id)>>,
                     moves |-> 0, ended |-> TRUE]
  /\ UNCHANGED hist

\* handleKeyDown, Ctrl+Z (and the toolbar's onUndo): historyActions.undo()
HandleKeyDownUndo(c) ==
  /\ UserDid
  /\ Undo
  /\ drag' = drag

\* handleKeyDown, Ctrl+Y or Ctrl+Shift+Z (and onRedo): historyActions.redo()
HandleKeyDownRedo(c) ==
  /\ UserDid
  /\ Redo
  /\ drag' = NoDrag

\* the relay receives delete_object
RelayDeleteObject(c) ==
  /\ up[c] # <<>> /\ Head(up[c]).ev = "delete_object"
  /\ OnDeleteObject(c, Head(up[c]).payload)
  /\ Relayed(c)

\* a socket listener of the drawing map ran on the next event of the link
DrawingReceived(c, newObjects) ==
  /\ HookSetObjectsWithoutHistory(newObjects)
  /\ down' = [down EXCEPT ![c] = Tail(@)]
  /\ drag' = NoDrag
  /\ UNCHANGED <<ops, commits, turns>>
  /\ UNCHANGED <<isConnected, objects, up, gestures, hist>>
  /\ UNCHANGED <<rooms, storeAux, relayVars, throttleVars>>

DrawingOnRoomState(c) ==
  /\ down[c] # <<>> /\ Head(down[c]).ev = "room_state"
  /\ DrawingReceived(c, drawingOnRoomState(Head(down[c]).data))

DrawingOnObjectCreated(c) ==
  /\ down[c] # <<>> /\ Head(down[c]).ev = "object_created"
  /\ DrawingReceived(c, drawingOnObjectCreated(MountObjects, Head(down[c]).data))

DrawingOnObjectDeleted(c) ==
  /\ down[c] # <<>> /\ Head(down[c]).ev = "object_deleted"
  /\ DrawingReceived(c, drawingOnObjectDeleted(MountObjects, Head(down[c]).data))

DrawingOnObjectUpdated(c) ==
  /\ down[c] # <<>> /\ Head(down[c]).ev = "object_updated"
  /\ DrawingReceived(c, drawingOnObjectUpdated(MountObjects, Head(down[c]).data))

(***************************************************************************)
(* SpecDrawing: the drawing map of user A, the relay, and a peer B on the  *)
(* plain map that joins the room and listens.                              *)
(***************************************************************************)
Watchers == Conns \ Users

InitDrawing == RelayInit /\ StoreAuxInit /\ ClientInit

NextDrawing ==
  \/ \E c \in Conns : Connect(c)
  \/ \E c \in Users, o \in ClickObjects : DrawObject(c, o)
  \/ \E c \in Users, i \in ObjIds : HandleObjectDelete(c, i)
  \/ \E c \in Users, i \in ObjIds, p \in DragPositions : HandleObjectDrag(c, i, p)
  \/ \E c \in Users, i \in ObjIds, p \in DragPositions : HandleObjectDragEnd(c, i, p)
  \/ \E c \in Users : HandleKeyDownUndo(c)
  \/ \E c \in Users : HandleKeyDownRedo(c)
  \/ Render
  \/ \E c \in Users : DrawingOnRoomState(c)
  \/ \E c \in Conns : RelayJoinRoom(c)
  \/ \E c \in Users : RelayCreateObject(c)
  \/ \E c \in Users : RelayUpdateObject(c)
  \/ \E c \in Users : RelayDeleteObject(c)
  \/ \E c \in Watchers : OnRoomState(c)
  \/ \E c \in Watchers : OnObjectCreated(c)
  \/ \E c \in Watchers : OnObjectUpdated(c)

SpecDrawing == InitDrawing /\ [][NextDrawing]_vars

(***************************************************************************)
(* SpecDrawingInbound: the drawing map of user A draws while the events of *)
(* ServerToClientEvents arrive in any order.                               *)
(***************************************************************************)
DrawingInboundEvents ==
  InboundEvents \cup {Event("object_deleted", [objectId |-> i]) : i \in ObjIds}

\* the socket receives event e; a peer's object_created carries an id the
\* peer generated
DrawingArrive(c, e) ==
  /\ down[c] = <<>>
  /\ rendered = hObjects
  /\ e.ev = "object_created" => hist[e.data.id].made = 0 /\ ~Shows(hObjects, e.data.id)
  /\ down' = [down EXCEPT ![c] = <<e>>]
  /\ UNCHANGED <<isConnected, objects, up, gestures, hist>>
  /\ UNCHANGED <<rooms, storeAux, relayVars, throttleVars, historyVars>>

InitDrawingInbound == RelayInit /\ StoreAuxInit /\ ClientInit

NextDrawingInbound ==
  \/ \E c \in Users, o \in ClickObjects : DrawObject(c, o)
  \/ Render
  \/ \E c \in Users, e \in DrawingInboundEvents : DrawingArrive(c, e)
  \/ \E c \in Users : DrawingOnRoomState(c)
  \/ \E c \in Users : DrawingOnObjectCreated(c)
  \/ \E c \in Users : DrawingOnObjectDeleted(c)
  \/ \E c \in Users : DrawingOnObjectUpdated(c)

SpecDrawingInbound == InitDrawingInbound /\ [][NextDrawingInbound]_vars

(***************************************************************************)
(* Spec: the relay, two clients in one room and the links between them.    *)
(***************************************************************************)
Init == RelayInit /\ StoreAuxInit /\ ClientInit

NextSync ==
  \/ \E c \in Conns : Connect(c)
  \/ \E c \in Conns, o \in ClickObjects : CreateObject(c, o)
  \/ \E c \in Conns, i \in ObjIds, p \in Positions : HandleDragEnd(c, i, p)
  \/ \E c \in Conns : RelayJoinRoom(c)
  \/ \E c \in Conns : RelayUpdateObject(c)
  \/ \E c \in Conns : RelayCreateObject(c)
  \/ \E c \in Conns : OnRoomState(c)
  \/ \E c \in Conns : OnObjectUpdated(c)
  \/ \E c \in Conns : OnObjectCreated(c)

Spec == Init /\ [][NextSync]_vars

(***************************************************************************)
(* Claims about the room store (SpecStore).                                *)
(***************************************************************************)
RefValues(f) == {f[i] : i \in DOMAIN f}

\* C9: after any sequence of addObject / updateObjectPosition / deleteObject
\* calls (and room creations and deletions), getRoomObjects(roomId) holds
\* exactly the values of the reference map of that room, each once, and every
\* update or delete returned true exactly when the reference map held the id.
C9_StoreMatchesReference ==
  /\ \A r \in RoomIds :
       /\ SeqRange(getRoomObjects(rooms, r)) = RefValues(ref[r])
       /\ Len(getRoomObjects(rooms, r)) = Cardinality(DOMAIN ref[r])
  /\ call.op \in {"updateObjectPosition", "deleteObject"} => ret = refRet

\* a delete of a present id has just returned true and left a room with one
\* object, a catapult moved to x = 50, in the store and in the reference map
C9_Witness ==
  /\ call.op = "deleteObject"
  /\ ret = TRUE
  /\ \E r \in RoomIds :
       /\ Len(getRoomObjects(rooms, r)) = 1
       /\ Cardinality(DOMAIN ref[r]) = 1
       /\ \E o \in RefValues(ref[r]) : o.x = 50 /\ o.type = "catapult"

MissingEntity(rs, roomId, objectId) ==
  \/ roomId \notin DOMAIN rs
  \/ ~MapHas(rs[roomId].objects, objectId)

\* C10: updateObjectPosition and deleteObject on a room that does not exist,
\* or on an id absent from an existing room, return false and leave the whole
\* store as it was: no room is created, no object added, removed or moved.
C10_MissingEntityNoOp ==
  [][ (/\ call'.op \in {"updateObjectPosition", "deleteObject"}
       /\ MissingEntity(rooms, call'.roomId, call'.objectId))
      => (ret' = FALSE /\ rooms' = rooms) ]_vars

\* an update or delete has just failed on a room that does not exist while
\* another room holds an object, and one has failed on an id absent from an
\* existing, non-empty room
C10_Witness ==
  /\ call.op \in {"updateObjectPosition", "deleteObject"}
  /\ ret = FALSE
  /\ \/ /\ call.roomId \notin DOMAIN rooms
        /\ \E r \in DOMAIN rooms : rooms[r].objects # <<>>
     \/ /\ call.roomId \in DOMAIN rooms
        /\ rooms[call.roomId].objects # <<>>
        /\ ~MapHas(rooms[call.roomId].objects, call.objectId)

\* C11: getRoomObjects on a room id that does not exist returns the empty
\* sequence and creates nothing: hasRoom(roomId) is false before and after the
\* read, and the store is the same.
C11_ReadDoesNotCreate ==
  [][ (call'.op = "getRoomObjects" /\ ~hasRoom(rooms, call'.roomId))
      => (/\ ret' = <<>>
          /\ ~hasRoom(rooms', call'.roomId)
          /\ rooms' = rooms) ]_vars

\* the objects of a room that does not exist were just read, and came back
\* empty, while the other room exists and holds an object
C11_Witness ==
  /\ call.op = "getRoomObjects"
  /\ ~hasRoom(rooms, call.roomId)
  /\ ret = <<>>
  /\ \E r \in DOMAIN rooms : rooms[r].objects # <<>>


(***************************************************************************)
(* Claims about the relay (SpecRelay).  `req` is the event handled by the  *)
(* step, unprimed names are the state the handler found.                   *)
(***************************************************************************)
Mutation(ev) == ev \in {"create_object", "update_object"}

Joined(c) == ~Falsy(sockRoom[c])

\* the connections the last handler sent something to
Recipients(o) == {d \in Conns : o[d] # <<>>}

\* the other sockets in socket.io room r
Peers(c, r) == {d \in Conns \ {c} : r \in member[d]}

BroadcastName(ev) ==
  IF ev = "create_object" THEN "object_created"
  ELSE IF ev = "update_object" THEN "object_updated" ELSE "object_deleted"

\* C1: when a joined connection C sends create_object, or an update_object
\* the store applies, every other connection in C's room is sent exactly the
\* one object_created / object_updated event carrying C's payload, and C
\* itself is sent nothing.
C1_EchoSuppression ==
  [][ (Mutation(req'.ev) /\ Joined(req'.conn)) =>
      LET c == req'.conn
          r == sockRoom[c]
          applied == \/ req'.ev = "create_object"
                     \/ updateObjectPosition(rooms, r, req'.payload.objectId,
                                             req'.payload.position).ret
      IN  /\ out'[c] = <<>>
          /\ applied => \A d \in Peers(c, r) :
                          out'[d] = <<Event(BroadcastName(req'.ev), req'.payload)>> ]_vars

\* a create was just broadcast to the other member of the sender's room and
\* not to the sender
C1_Witness ==
  /\ req.ev = "create_object"
  /\ Joined(req.conn)
  /\ Peers(req.conn, sockRoom[req.conn]) # {}
  /\ \A d \in Peers(req.conn, sockRoom[req.conn]) : Len(out[d]) = 1
  /\ out[req.conn] = <<>>

\* C2: every join_room the relay handles sends exactly one room_state, to the
\* joining connection and to nobody else, and it lists exactly the objects of
\* that room's store, each once.
C2_JoinCheckpoint ==
  req.ev = "join_room" =>
    LET c == req.conn
        r == req.payload.roomId
    IN  /\ Len(out[c]) = 1
        /\ out[c][1].ev = "room_state"
        /\ Recipients(out) = {c}
        /\ r \in DOMAIN rooms
        /\ SeqRange(out[c][1].data) = {e.value : e \in SeqRange(rooms[r].objects)}
        /\ Len(out[c][1].data) = Len(rooms[r].objects)

\* a connection joined a room that held two objects while the other
\* connection was a member of it
C2_Witness ==
  /\ req.ev = "join_room"
  /\ Len(out[req.conn][1].data) = 2
  /\ \E d \in Conns \ {req.conn} : req.payload.roomId \in member[d]

\* C5: a connection is sent object_created / object_updated only for the room
\* its own mutations are applied to (socket.data.roomId), also after it has
\* sent join_room several times, and a mutation applied to one room leaves
\* the object list of every other room as it was.
C5_RoomIsolation ==
  [][ (Mutation(req'.ev) /\ Joined(req'.conn)) =>
      LET r == sockRoom[req'.conn]
      IN  /\ \A d \in Recipients(out') : sockRoom[d] = r
          /\ \A q \in RoomIds \ {r} :
               getRoomObjects(rooms', q) = getRoomObjects(rooms, q) ]_vars

\* C6: on update_object from a joined connection, object_updated goes to the
\* other members of its room exactly when updateObjectPosition returned true;
\* an update of an id the room's store does not hold changes nothing in the
\* store and is sent to no connection.
C6_UpdateForwardedIffApplied ==
  [][ (req'.ev = "update_object" /\ Joined(req'.conn)) =>
      LET c == req'.conn
          r == sockRoom[c]
          updated == updateObjectPosition(rooms, r, req'.payload.objectId,
                                          req'.payload.position).ret
          known == r \in DOMAIN rooms /\
                   \E e \in SeqRange(rooms[r].objects) : e.key = req'.payload.objectId
      IN  /\ Recipients(out') = IF updated THEN Peers(c, r) ELSE {}
          /\ \A d \in Recipients(out') :
               out'[d] = <<Event("object_updated", req'.payload)>>
          /\ ~known => (rooms' = rooms /\ out' = NoOut) ]_vars

\* an update of an unknown id was dropped although the sender's room holds
\* another object and has another member
C6_Witness ==
  /\ req.ev = "update_object"
  /\ Joined(req.conn)
  /\ Peers(req.conn, sockRoom[req.conn]) # {}
  /\ rooms[sockRoom[req.conn]].objects # <<>>
  /\ ~MapHas(rooms[sockRoom[req.conn]].objects, req.payload.objectId)
  /\ out = NoOut

\* C7: a create_object or update_object from a connection that has not sent
\* join_room leaves every room of the store unchanged, creates no room and
\* sends no event to any connection.
C7_UnjoinedCannotMutate ==
  [][ (Mutation(req'.ev) /\ sockRoom[req'.conn] = Undefined) =>
      (rooms' = rooms /\ out' = NoOut) ]_vars

\* an unjoined connection just sent a create_object for an id that the other
\* connection's room holds
C7_Witness ==
  /\ req.ev = "create_object"
  /\ sockRoom[req.conn] = Undefined
  /\ live[req.conn]
  /\ \E d \in Conns \ {req.conn} :
       /\ Joined(d)
       /\ MapHas(rooms[sockRoom[d]].objects, req.payload.id)

\* C8: on delete_object from a joined connection the relay removes the object
\* from the room's store and, exactly when the removal succeeded, sends
\* object_deleted to the other members of the room.
C8_DeleteRelayed ==
  [][ (req'.ev = "delete_object" /\ Joined(req'.conn)) =>
      LET c == req'.conn
          r == sockRoom[c]
          removed == deleteObject(rooms, r, req'.payload.objectId)
      IN  /\ rooms' = removed.rooms
          /\ Recipients(out') = IF removed.ret THEN Peers(c, r) ELSE {}
          /\ \A d \in Recipients(out') :
               out'[d] = <<Event("object_deleted", req'.payload)>> ]_vars


(***************************************************************************)
(* Claims about the clients and the relay together (Spec).  hist[i] says   *)
(* who clicked or dragged object id i (by), how often it was created       *)
(* (made), who dragged it (movers), whether any of that happened while the *)
(* user was disconnected (offline) or connected (online), which other      *)
(* clients the relay had joined to the room when it was first created      *)
(* (audience), and the created payload at the position of the last drag    *)
(* end (intent).                                                           *)
(***************************************************************************)
Quiescent == \A c \in Conns : up[c] = <<>> /\ down[c] = <<>>

\* the places of object id i in client c's local list
Copies(c, i) == {k \in 1..Len(objects[c]) : objects[c][k].id = i}

Pos(o) == [x |-> o.x, y |-> o.y]

\* C3: when both clients, connected and joined to the same room when the
\* object was created (once), have dragged it and each holds it in its list,
\* then once every message in flight is delivered the object rests, in every
\* client's local list, at the position it has in the server store, which is
\* that of the update the relay applied last.
C3_LastAppliedWins ==
  \A i \in ObjIds :
    (/\ Quiescent
     /\ hist[i].made = 1
     /\ ~hist[i].offline
     /\ hist[i].movers = Conns
     /\ hist[i].audience # {}
     /\ \A c \in Conns : Cardinality(Copies(c, i)) = 1
     /\ "r1" \in DOMAIN rooms
     /\ MapHas(rooms["r1"].objects, i))
    => \A c \in Conns : \A k \in Copies(c, i) :
         Pos(objects[c][k]) = Pos(MapGet(rooms["r1"].objects, i))

\* C4: if client A, connected, creates an object while B is joined to the same
\* room, and A alone touches it (dragging it or not), then once every message
\* is delivered B's local list holds that object exactly once, with the
\* created payload at the position of A's last forced update.
C4_EndToEnd ==
  \A i \in ObjIds : \A a \in Conns : \A b \in Conns \ {a} :
    (/\ Quiescent
     /\ hist[i].made = 1
     /\ hist[i].by = {a}
     /\ ~hist[i].offline
     /\ b \in hist[i].audience)
    => /\ Cardinality(Copies(b, i)) = 1
       /\ \A k \in Copies(b, i) : objects[b][k] = hist[i].intent

\* B, joined before A created o1 at (10,20), ends with o1 at (50,60), where A
\* dragged it
C4_Witness ==
  /\ Quiescent
  /\ hist["o1"].made = 1
  /\ hist["o1"].by = {"A"}
  /\ hist["o1"].movers = {"A"}
  /\ ~hist["o1"].offline
  /\ "B" \in hist["o1"].audience
  /\ \E k \in Copies("B", "o1") :
       objects["B"][k] = [id |-> "o1", x |-> 50, y |-> 60, type |-> "x"]


(***************************************************************************)
(* Claims about the throttle (SpecThrottle).                               *)
(***************************************************************************)
\* the ids for which hook c has made two throttled updates while connected
Throttled(c) ==
  {i \in ObjIds : i \in DOMAIN lastThrottled[c] /\ lastThrottled[c][i].paired}

\* C12 as stated: while connected, of two consecutive throttled updates for
\* the same object id separated by less than 16 ms only one emits an
\* update_object, and when they are separated by 16 ms or more each of the
\* two emits one.
C12_ThrottlePairs ==
  \A c \in Conns : \A i \in Throttled(c) :
    LET e == lastThrottled[c][i]
    IN  /\ e.gap < THROTTLE_INTERVAL => ~(e.prevSent /\ e.sent)
        /\ e.gap >= THROTTLE_INTERVAL => (e.prevSent /\ e.sent)

\* C12 amended: while connected, of two consecutive throttled updates for the
\* same object id separated by less than 16 ms at most one emits, and when
\* they are separated by 16 ms or more, with no forced emission for that id
\* between them, the second emits (whether or not the first did).
C12_ThrottleWindow ==
  \A c \in Conns : \A i \in Throttled(c) :
    LET e == lastThrottled[c][i]
    IN  /\ e.gap < THROTTLE_INTERVAL => ~(e.prevSent /\ e.sent)
        /\ (e.gap >= THROTTLE_INTERVAL /\ ~e.between) => e.sent

\* a throttled update was emitted exactly 16 ms after one that had been
\* suppressed, and both of A's emissions for o1 are on the link
C12_Witness ==
  /\ "o1" \in Throttled("A")
  /\ lastThrottled["A"]["o1"].gap = THROTTLE_INTERVAL
  /\ lastThrottled["A"]["o1"].sent
  /\ ~lastThrottled["A"]["o1"].prevSent
  /\ ~lastThrottled["A"]["o1"].between
  /\ Len(SelectSeq(up["A"], LAMBDA m : m.ev = "update_object")) = 2

\* C13: a forced emission made while connected always puts one update_object
\* carrying the given position on the link, however recent the last emission
\* for that id, and the id's last-emission time becomes the time of the call.
C13_ForcedEmission ==
  [][ \A c \in Conns, i \in ObjIds, p \in Positions :
        (CallEmitUpdateObjectForce(c, i, p) /\ isConnected[c]) =>
          /\ up'[c] = Append(up[c], Msg("update_object",
                                        [objectId |-> i, position |-> p]))
          /\ i \in DOMAIN lastEmitTime'[c]
          /\ lastEmitTime'[c][i] = now ]_vars

\* a throttled update for o1 was emitted, a forced one followed less than
\* 16 ms later and is the last event on the link, and o1's last-emission time
\* is the time of the forced call
C13_Witness ==
  /\ isConnected["A"]
  /\ "o1" \in DOMAIN lastThrottled["A"]
  /\ lastThrottled["A"]["o1"].sent
  /\ lastThrottled["A"]["o1"].forced
  /\ now > lastThrottled["A"]["o1"].at
  /\ now - lastThrottled["A"]["o1"].at < THROTTLE_INTERVAL
  /\ lastEmitTime["A"]["o1"] = now
  /\ Len(SelectSeq(up["A"], LAMBDA m : m.ev = "update_object")) = 2
  /\ up["A"][Len(up["A"])].payload.objectId = "o1"


(***************************************************************************)
(* Claims about a client that loses its connection (SpecOffline).          *)
(***************************************************************************)
InFlight(c, i) ==
  {k \in 1..Len(up[c]) :
     \/ up[c][k].ev = "create_object" /\ up[c][k].payload.id = i
     \/ up[c][k].ev = "update_object" /\ up[c][k].payload.objectId = i}

StoreHolds(i) == \E r \in DOMAIN rooms : MapHas(rooms[r].objects, i)

\* C14: while a client is disconnected, createObject and the drag handlers'
\* updateObjectLocal change its local list at once, no create_object or
\* update_object is emitted and nothing is queued (the store is untouched);
\* when it reconnects the only event it sends is join_room, so an object whose
\* clicks and drags were all made while disconnected never reaches the link or
\* the store.
C14_OfflineEditsStayLocal ==
  [][ /\ \A c \in Conns : ~isConnected[c] =>
           /\ \A o \in ClickObjects : CreateObject(c, o) =>
                /\ objects'[c] = Append(objects[c], o)
                /\ up' = up /\ rooms' = rooms /\ lastEmitTime' = lastEmitTime
           /\ \A i \in ObjIds, p \in Positions :
                (HandleDragMove(c, i, p) \/ HandleDragEnd(c, i, p)) =>
                  /\ Len(objects'[c]) = Len(objects[c])
                  /\ \A k \in 1..Len(objects[c]) :
                       objects'[c][k] =
                         IF objects[c][k].id = i
                           THEN [objects[c][k] EXCEPT !.x = p.x, !.y = p.y]
                           ELSE objects[c][k]
                  /\ up' = up /\ rooms' = rooms /\ lastEmitTime' = lastEmitTime
           /\ up[c] = <<>>
           /\ up'[c] \in {<<>>, <<Msg("join_room", [roomId |-> RoomOf[c]])>>}
      /\ \A i \in ObjIds : (hist'[i].made > 0 /\ ~hist'[i].online) =>
           /\ ~StoreHolds(i)'
           /\ \A c \in Conns : InFlight(c, i)' = {} ]_vars

\* A created o1 and dragged it while disconnected, then reconnected: A has
\* joined r1 again, nothing is in flight, and the store and A's list (now the
\* room_state it was sent) are without o1
C14_Witness ==
  /\ hist["o1"].made = 1
  /\ hist["o1"].movers = {"A"}
  /\ ~hist["o1"].online
  /\ isConnected["A"]
  /\ sockRoom["A"] = "r1"
  /\ Quiescent
  /\ ~StoreHolds("o1")
  /\ objects["A"] = <<>>


(***************************************************************************)
(* Claims about the history (SpecHistory: any order, any canvas, short;    *)
(* SpecHistoryLong: long runs).                                            *)
(***************************************************************************)
Last(q) == q[Len(q)]

\* C15: pushState installs its argument; an undo that finds a snapshot
\* returns and installs the objects that were current right before the latest
\* pushState (or redo) not yet undone, and a redo that finds one returns and
\* installs the objects that were current right before the latest undo not
\* yet redone: so after pushState(A), pushState(B), undo() yields A and
\* redo() then yields B.
C15_UndoRedoValues ==
  [][ /\ \A n \in Canvases : PushState(n) => hObjects' = n
      /\ (Undo /\ hret' # Null) =>
           /\ past # <<>>
           /\ hret' = Snapshot(Last(past))
           /\ hObjects' = Last(past)
      /\ (Redo /\ hret' # Null) =>
           /\ undone # <<>>
           /\ hret' = Snapshot(Last(undone))
           /\ hObjects' = Last(undone) ]_vars

\* C16: every pushState, whatever the history before it, leaves the Redo
\* stack empty (canRedo false, redoCount 0), and a redo called right after it
\* returns null and changes neither the objects nor the stacks.
C16_CommitClearsRedo ==
  [][ /\ (\E n \in Canvases : PushState(n)) =>
           (redoStack' = <<>> /\ ~canRedo' /\ redoCount' = 0)
      /\ (hcall.op = "pushState" /\ Redo) =>
           /\ hret' = Null
           /\ hObjects' = hObjects
           /\ undoStack' = undoStack
           /\ redoStack' = redoStack ]_vars

\* a pushState has just found two undone canvases on the Redo stack and left
\* none
C16_Witness ==
  /\ hcall.op = "pushState"
  /\ hcall.redoBefore = 2
  /\ redoStack = <<>>
  /\ ~canRedo
  /\ undoStack # <<>>

\* C17: n > 20 commits in a row from an empty history leave exactly 20
\* undoable steps, the objects that were current before each of the last 20
\* commits, oldest first; undo calls that follow return and install them
\* newest first, and the 21st returns null.
C17_CapacityKeepsNewest ==
  /\ (hcall.op = "pushState" /\ turns = 0 /\ commits > MAX_HISTORY_SIZE) =>
       /\ undoCount = MAX_HISTORY_SIZE
       /\ \A j \in 1..MAX_HISTORY_SIZE :
            undoStack[j] = Edit(commits - MAX_HISTORY_SIZE - 1 + j)
  /\ (hcall.op = "undo" /\ turns = 1 /\ commits > MAX_HISTORY_SIZE) =>
       LET k == Len(undone)
       IN  /\ k <= MAX_HISTORY_SIZE
           /\ undoCount = MAX_HISTORY_SIZE - k
           /\ hObjects = Edit(commits - k)
           /\ hret = IF hcall.undoBefore = 0 THEN Null
                     ELSE Snapshot(Edit(commits - k))

\* C18: in every state reached by pushState, undo, redo,
\* setObjectsWithoutHistory and clearHistory in any order, the Undo stack and
\* the Redo stack hold at most 20 snapshots each, and at most 20 together.
C18_BoundedHistory ==
  /\ undoCount <= MAX_HISTORY_SIZE
  /\ redoCount <= MAX_HISTORY_SIZE
  /\ undoCount + redoCount <= MAX_HISTORY_SIZE

\* after more than 20 commits and an undo, a redo has just appended to an
\* Undo stack of 19 and left it at 20
C18_Witness ==
  /\ commits > MAX_HISTORY_SIZE
  /\ hcall.op = "redo"
  /\ hcall.undoBefore = MAX_HISTORY_SIZE - 1
  /\ undoCount = MAX_HISTORY_SIZE
  /\ redoCount = 0

\* C19: setObjectsWithoutHistory replaces the current objects by its argument
\* and leaves both stacks, and so canUndo, canRedo, undoCount and redoCount,
\* as they were, whatever the history.
C19_ReplaceKeepsStacks ==
  [][ \A n \in Canvases : SetObjectsWithoutHistory(n) =>
        /\ hObjects' = n
        /\ undoStack' = undoStack
        /\ redoStack' = redoStack
        /\ canUndo' = canUndo
        /\ canRedo' = canRedo
        /\ undoCount' = undoCount
        /\ redoCount' = redoCount ]_vars

\* the canvas was just replaced while one step could be undone and one redone,
\* and both still can
C19_Witness ==
  /\ hcall.op = "setObjectsWithoutHistory"
  /\ hcall.undoBefore = 1
  /\ hcall.redoBefore = 1
  /\ undoCount = 1
  /\ redoCount = 1
  /\ hObjects = <<Circle1, Rectangle2>>
  /\ hObjects \notin SeqRange(undoStack) \cup SeqRange(redoStack)

\* C20: undo with an empty Undo stack and redo with an empty Redo stack
\* return null and leave the current objects and both stacks as they were.
C20_EmptyStackNoOp ==
  [][ /\ (Undo /\ undoStack = <<>>) =>
           /\ hret' = Null
           /\ hObjects' = hObjects
           /\ undoStack' = undoStack
           /\ redoStack' = redoStack
      /\ (Redo /\ redoStack = <<>>) =>
           /\ hret' = Null
           /\ hObjects' = hObjects
           /\ undoStack' = undoStack
           /\ redoStack' = redoStack ]_vars

\* an undo has just returned null on an empty Undo stack while a canvas was
\* current and another waited on the Redo stack
C20_Witness ==
  /\ hcall.op = "undo"
  /\ hcall.undoBefore = 0
  /\ hret = Null
  /\ hObjects # <<>>
  /\ redoStack # <<>>
  /\ undoStack = <<>>

(***************************************************************************)
(* Claims about connections that end (SpecLeave).                          *)
(***************************************************************************)
\* the step is the relay handling event ev of connection c
Handled(c, ev) ==
  /\ req'.ev = ev /\ req'.conn = c
  /\ req' # req \/ (up[c] # <<>> /\ up'[c] = Tail(up[c]))

\* C21: the relay's disconnect handler leaves every room and every object of
\* the store as it was and sends nothing; no later step of the relay takes an
\* object out of a room, and every join_room is answered with a room_state
\* that lists every object of the room: so the objects of a connection that
\* has gone are sent to whoever joins afterwards.
C21_DisconnectKeepsStore ==
  [][ /\ \A c \in Conns : Handled(c, "disconnect") =>
           (rooms' = rooms /\ out' = NoOut)
      /\ \A r \in DOMAIN rooms, i \in ObjIds : MapHas(rooms[r].objects, i) =>
           (r \in DOMAIN rooms' /\ MapHas(rooms'[r].objects, i))
      /\ \A c \in Conns : Handled(c, "join_room") =>
           LET r == req'.payload.roomId
           IN  /\ Len(out'[c]) = 1
               /\ out'[c][1].ev = "room_state"
               /\ down'[c] = down[c] \o out'[c]
               /\ r \in DOMAIN rooms =>
                    \A e \in SeqRange(rooms[r].objects) :
                      e.value \in SeqRange(out'[c][1].data) ]_vars

\* A created o1 and o2 and its connection has ended; B, which never created
\* anything, has just joined the room and is sent both
C21_Witness ==
  /\ ~live["A"]
  /\ hist["o1"].by = {"A"}
  /\ hist["o2"].by = {"A"}
  /\ req.ev = "join_room"
  /\ req.conn = "B"
  /\ {o.id : o \in SeqRange(out["B"][1].data)} = {"o1", "o2"}
  /\ down["B"] = out["B"]

(***************************************************************************)
(* Claims about the listeners of useRoomSync (SpecInbound).                *)
(***************************************************************************)
\* the step is a listener of hook c handling the event at the head of its link
Listened(c) == down[c] # <<>> /\ down'[c] = Tail(down[c])

\* C22: every inbound event changes the local list as the reference says:
\* room_state makes it the received list; object_created makes it the
\* previous list with the new object appended; object_updated keeps the
\* length and every object, but for the x and y of the objects with the
\* event's id, which become the event's position (no such id: no change).
C22_InboundMerge ==
  [][ \A c \in Conns : Listened(c) =>
        LET e == Head(down[c])
            prev == objects[c]
            next == objects'[c]
        IN  /\ e.ev = "room_state" => next = e.data
            /\ e.ev = "object_created" =>
                 /\ Len(next) = Len(prev) + 1
                 /\ SubSeq(next, 1, Len(prev)) = prev
                 /\ next[Len(next)] = e.data
            /\ e.ev = "object_updated" =>
                 /\ Len(next) = Len(prev)
                 /\ \A k \in 1..Len(prev) :
                      IF prev[k].id = e.data.objectId
                        THEN next[k] = [id |-> prev[k].id, type |-> prev[k].type,
                                        x |-> e.data.position.x,
                                        y |-> e.data.position.y]
                        ELSE next[k] = prev[k]
                 /\ (\A k \in 1..Len(prev) : prev[k].id # e.data.objectId) =>
                      next = prev ]_vars

\* a list of three objects, which no room_state carries, after an update
\* moved its o1 to (500, 600) and left its o2 where it was created
C22_Witness ==
  /\ down["A"] = <<>>
  /\ Len(objects["A"]) = MaxList
  /\ \E k \in 1..Len(objects["A"]) :
       objects["A"][k] = [id |-> "o1", type |-> "x", x |-> MovedTo.x, y |-> MovedTo.y]
  /\ \E k \in 1..Len(objects["A"]) :
       objects["A"][k] = [id |-> "o2", type |-> "catapult", x |-> 10, y |-> 20]

(***************************************************************************)
(* Claims about the drawing map (SpecDrawingInbound, SpecDrawing).         *)
(***************************************************************************)
\* C23: in the drawing map, a peer's object_created, object_updated or
\* object_deleted received at any time after mount leaves the list the
\* client had at that time with that one change applied: every object that
\* is not the event's target is still in the list.
C23_InboundKeepsOthers ==
  [][ \A c \in Users : Listened(c) =>
        LET e == Head(down[c])
        IN  /\ e.ev = "object_created" =>
                 hObjects' = drawingOnObjectCreated(hObjects, e.data)
            /\ e.ev = "object_updated" =>
                 hObjects' = drawingOnObjectUpdated(hObjects, e.data)
            /\ e.ev = "object_deleted" =>
                 hObjects' = drawingOnObjectDeleted(hObjects, e.data)
            /\ e.ev \in {"object_updated", "object_deleted"} =>
                 \A k \in 1..Len(hObjects) :
                    hObjects[k].id # e.data.objectId => Shows(hObjects', hObjects[k].id)
            /\ e.ev = "object_created" =>
                 \A k \in 1..Len(hObjects) : Shows(hObjects', hObjects[k].id) ]_vars

(***************************************************************************)
(* Claims about the store's updates (SpecStore).                           *)
(***************************************************************************)
\* C24: an updateObjectPosition that returns true changes nothing but the x
\* and y of the object with the given id in the given room: that object
\* keeps its id, its type and its place, every other object of the room and
\* every other room is as before, and no room appears or disappears.
C24_UpdateFrame ==
  [][ \A r \in RoomIds, i \in ObjIds, p \in Positions :
        (CallUpdateObjectPosition(r, i, p) /\ ret' = TRUE) =>
          /\ DOMAIN rooms' = DOMAIN rooms
          /\ \A q \in DOMAIN rooms \ {r} : rooms'[q] = rooms[q]
          /\ rooms'[r].roomId = rooms[r].roomId
          /\ Len(rooms'[r].objects) = Len(rooms[r].objects)
          /\ \A k \in 1..Len(rooms[r].objects) :
               LET old == rooms[r].objects[k]
                   new == rooms'[r].objects[k]
               IN  IF old.key = i
                     THEN /\ new.key = i
                          /\ new.value = [id |-> old.value.id, type |-> old.value.type,
                                          x |-> p.x, y |-> p.y]
                     ELSE new = old ]_vars

\* an update has just returned true and moved o1 of room r1, a catapult, to
\* (50, 60) while o2 of r1 and an object of room r2 stayed at (10, 20)
C24_Witness ==
  /\ call = [op |-> "updateObjectPosition", roomId |-> "r1", objectId |-> "o1"]
  /\ ret = TRUE
  /\ RoomIds \subseteq DOMAIN rooms
  /\ \E k \in 1..Len(rooms["r1"].objects) :
       rooms["r1"].objects[k].value = [id |-> "o1", type |-> "catapult", x |-> 50, y |-> 60]
  /\ \E k \in 1..Len(rooms["r1"].objects) :
       rooms["r1"].objects[k].value = [id |-> "o2", type |-> "x", x |-> 10, y |-> 20]
  /\ \E k \in 1..Len(rooms["r2"].objects) :
       /\ rooms["r2"].objects[k].value.x = 10
       /\ rooms["r2"].objects[k].value.y = 20

(***************************************************************************)
(* Claims about the throttle windows of different objects (SpecThrottle).  *)
(***************************************************************************)
\* C25: the throttle window is kept per object id.  A call of an emitter
\* (throttled or forced) for id a leaves the last-emission time of every
\* other id b as it was, so whether a throttled update for b is emitted is
\* the same right before and right after the call; and a throttled call that
\* is suppressed, or any call made while disconnected, leaves every id's
\* last-emission time as it was.
C25_WindowPerObject ==
  [][ \A c \in Users, a \in ObjIds, p \in Positions :
        /\ (CallEmitUpdateObject(c, a, p) \/ CallEmitUpdateObjectForce(c, a, p)) =>
             \A b \in ObjIds \ {a} :
               /\ (b \in DOMAIN lastEmitTime'[c]) = (b \in DOMAIN lastEmitTime[c])
               /\ TimeGetOrZero(lastEmitTime'[c], b) = TimeGetOrZero(lastEmitTime[c], b)
               /\ \A q \in Positions :
                    emitUpdateObject(c, b, q).sent' = emitUpdateObject(c, b, q).sent
        /\ (CallEmitUpdateObject(c, a, p) /\ up'[c] = up[c]) =>
             lastEmitTime' = lastEmitTime
        /\ ((CallEmitUpdateObject(c, a, p) \/ CallEmitUpdateObjectForce(c, a, p))
              /\ ~isConnected[c]) =>
             lastEmitTime' = lastEmitTime ]_vars

\* a throttled update for o1 has just been emitted 5 ms after one for o2: the
\* window of o2 still is the one its own emission opened, and o2's next
\* throttled update would be suppressed
C25_Witness ==
  /\ isConnected["A"]
  /\ "o1" \in Throttled("A")
  /\ lastThrottled["A"]["o1"].sent
  /\ lastThrottled["A"]["o1"].at = now
  /\ lastEmitTime["A"]["o1"] = now
  /\ "o2" \in DOMAIN lastEmitTime["A"]
  /\ lastEmitTime["A"]["o2"] = now - 5
  /\ \A q \in Positions : emitUpdateObject("A", "o2", q).sent = <<>>

(***************************************************************************)
(* Claims about history operations of one event tick (SpecHistory).        *)
(***************************************************************************)
\* C26: an undo or redo called right after an undo or redo that was called
\* on a fresh render, in the same tick as it or not, does what it does when
\* a render separates the two: an undo
\* that finds a snapshot installs it, takes it off the Undo stack and puts the
\* objects that were current when it was called on the Redo stack (so two
\* undos leave two distinct undone states there, and undoCount and redoCount
\* change by 2); a redo likewise with the stacks exchanged.
C26_SameTickLikeSeparateTicks ==
  [][ (hcall.op \in {"undo", "redo"} /\ hcall.fresh) =>
        /\ (Undo /\ hret' # Null) =>
             /\ hObjects' = Last(undoStack)
             /\ undoCount' = undoCount - 1
             /\ redoCount' = redoCount + 1
             /\ redoStack' = undo(hObjects, undoStack, redoStack).redo
        /\ (Redo /\ hret' # Null) =>
             /\ hObjects' = Last(redoStack)
             /\ redoCount' = redoCount - 1
             /\ undoCount' = undoCount + 1
             /\ undoStack' = redo(hObjects, undoStack, redoStack).undo ]_vars

(***************************************************************************)
(* Claims about local creations and the lists of the clients (Spec).       *)
(***************************************************************************)
\* C27: an object that client c created with createObject while connected
\* (its join_room emitted before, its create_object emitted) is in c's local
\* list once every message in flight is delivered, whatever the order in
\* which the relay's room_state reply and the creation happened.
C27_CreatedStaysListed ==
  \A i \in ObjIds : \A c \in Conns :
    (/\ Quiescent
     /\ hist[i].made = 1
     /\ hist[i].by = {c}
     /\ ~hist[i].offline)
    => Copies(c, i) # {}

\* C28: no client's local list holds two entries with the same id, whatever
\* the local createObject calls and the inbound room_state and
\* object_created events were: its length is the number of its distinct ids.
C28_LocalIdsUnique ==
  \A c \in Conns :
    /\ \A i \in ObjIds : Cardinality(Copies(c, i)) <= 1
    /\ Len(objects[c]) = Cardinality({objects[c][k].id : k \in 1..Len(objects[c])})

(***************************************************************************)
(* Claims about the drawing map, its history and the relay (SpecDrawing).  *)
(***************************************************************************)
\* C30: in the drawing map, after a complete drag gesture on an object (one
\* or more drag-move callbacks, then drag-end), one undo puts the object back
\* where it was before the gesture began: a position the object only passed
\* through during the drag is never what undo restores.
C30_UndoRevertsWholeDrag ==
  [][ \A c \in Users :
        (HandleKeyDownUndo(c) /\ drag.ended /\ drag.moves >= 1) =>
          /\ hret' # Null
          /\ Shows(hObjects', drag.id)
          /\ PositionOf(hObjects', drag.id) = drag.from[1] ]_vars

\* the user's changes were all made while connected, the relay has handled
\* every event of c and c has handled every event sent to it
Delivered(c) ==
  /\ isConnected[c]
  /\ sockRoom[c] = RoomOf[c]
  /\ up[c] = <<>>
  /\ down[c] = <<>>
  /\ \A i \in ObjIds : ~hist[i].offline

\* C29: undo and redo of the drawing map change only the client's own state:
\* they emit no event, and the store, the relay and every peer's list are as
\* before; and an undo that changes the list right after the user's commit
\* (it reverts a creation, a move or a deletion made while connected and
\* delivered to the relay) leaves the client's list different from the
\* store's list of the room.
C29_UndoRedoStayLocal ==
  [][ \A c \in Users :
        /\ (HandleKeyDownUndo(c) \/ HandleKeyDownRedo(c)) =>
             /\ up' = up
             /\ down' = down
             /\ rooms' = rooms
             /\ out' = out /\ req' = req
             /\ \A d \in Conns : objects'[d] = objects[d]
        /\ (HandleKeyDownUndo(c) /\ hcall.op = "pushState" /\ Delivered(c)
              /\ hObjects' # hObjects) =>
             hObjects' # getRoomObjects(rooms', RoomOf[c]) ]_vars

=============================================================================
